---- MODULE Spec2Model ----
(***************************************************************************)
(* Model of backend/search_tools.py: the Tool contract, CourseSearchTool,   *)
(* CourseOutlineTool and the ToolManager registry.                          *)
(*                                                                         *)
(* Text values are sequences of string pieces: an f-string is the sequence  *)
(* of its literal parts and its formatted values, str.join is the           *)
(* concatenation of the parts with the separator between them.              *)
(***************************************************************************)
EXTENDS Integers, Sequences, FiniteSets, TLC

VARIABLES
    tools,          \* ToolManager.tools: insertion-ordered dict, a sequence of [name, tool]
    last_sources,   \* last_sources attribute of every tool instance that has one
    last            \* the call that was made last: its arguments, what the store answered, its outcome

vars == <<tools, last_sources, last>>

(***************************** bounds **************************************)
\* longest result list the store returns to a search, when single calls are explored
MaxResults == 2
\* longest result list the store returns to a search, when call sequences are explored
MaxRows == 1

(************************* Python values ***********************************)
\* None where a string is expected / None where an int is expected
NoneStr == "None"
NoneInt == -1

\* truth value of an Optional[str] (None and "" are falsy)
TruthyStr(s) == s # NoneStr /\ s # ""
\* truth value of an Optional[int] (None and 0 are falsy)
TruthyInt(n) == n # NoneInt /\ n # 0

\* f"{n}" for an int
Str(n) == ToString(n)

Range(s) == {s[i] : i \in 1..Len(s)}

RECURSIVE Join(_, _)
\* sep.join(parts), parts a sequence of texts
Join(parts, sep) ==
    IF Len(parts) = 0 THEN <<>>
    ELSE IF Len(parts) = 1 THEN parts[1]
    ELSE parts[1] \o sep \o Join(Tail(parts), sep)

(************************* the store's answers *****************************)
Docs == {"d1", "d2"}
\* metadata of a result row: course_title absent (NoneStr) or a title, lesson_number absent or a number
Metas == {[course_title |-> "MCP",   lesson_number |-> 1],
          [course_title |-> "RAG",   lesson_number |-> 1],
          [course_title |-> "MCP",   lesson_number |-> NoneInt],
          [course_title |-> NoneStr, lesson_number |-> 0]}

SearchErrors == {NoneStr, "Search error: store unavailable"}

\* SearchResults(documents, metadata, error) with at most n rows: documents[i] belongs to metadata[i]
SearchResultsOver(docs, metas, n) ==
    UNION {[error : SearchErrors, documents : [1..k -> docs], metadata : [1..k -> metas]] : k \in 0..n}

\* SearchResults.is_empty()
is_empty(results) == Len(results.documents) = 0

EmptyDict == [title |-> NoneStr, course_link |-> NoneStr, instructor |-> NoneStr, lessons |-> <<>>]

CourseMCP == [title |-> "MCP", course_link |-> "http://mcp", instructor |-> "Ann",
              lessons |-> <<[lesson_number |-> 0, lesson_title |-> "Intro", lesson_link |-> NoneStr],
                            [lesson_number |-> 1, lesson_title |-> "Protocol", lesson_link |-> "http://mcp/1"]>>]
CourseRAG == [title |-> "RAG", course_link |-> NoneStr, instructor |-> NoneStr, lessons |-> <<>>]

\* what one call of store.get_all_courses_metadata() does: raises, or returns a list of courses
CatalogAnswers == {[raised |-> TRUE,  courses |-> <<>>],
                   [raised |-> FALSE, courses |-> <<>>],
                   [raised |-> FALSE, courses |-> <<CourseMCP, CourseRAG>>]}

\* what store._resolve_course_name(name) returns: None or a title
ResolveAnswers == {NoneStr, "MCP", "Other"}

(************************* CourseSearchTool ********************************)
\* course_name and lesson_number arguments of execute
CourseNames == {NoneStr, "MCP"}
LessonNumbers == {NoneInt, 0, 1}

RECURSIVE FindCourse(_, _)
\* for course_meta in all_courses: if course_meta.get('title') == course_title: return course_meta
FindCourse(all_courses, course_title) ==
    IF Len(all_courses) = 0 THEN EmptyDict
    ELSE IF Head(all_courses).title = course_title THEN Head(all_courses)
    ELSE FindCourse(Tail(all_courses), course_title)

\* CourseSearchTool._get_course_metadata, given what the store's call does
_get_course_metadata(answer, course_title) ==
    IF answer.raised THEN EmptyDict
    ELSE FindCourse(answer.courses, course_title)

RECURSIVE FindLessonLink(_, _)
\* for lesson in lessons: if lesson.get('lesson_number') == lesson_num: lesson_link = ...; break
FindLessonLink(lessons, lesson_num) ==
    IF Len(lessons) = 0 THEN NoneStr
    ELSE IF Head(lessons).lesson_number = lesson_num THEN Head(lessons).lesson_link
    ELSE FindLessonLink(Tail(lessons), lesson_num)

\* meta.get('course_title', 'unknown')
TitleOf(meta) == IF meta.course_title = NoneStr THEN "unknown" ELSE meta.course_title

\* the condition under which a row asks for a lesson link
NeedsLink(meta) ==
    /\ TruthyStr(TitleOf(meta))
    /\ TitleOf(meta) # "unknown"
    /\ meta.lesson_number # NoneInt

\* MustFetch without the cache test: every row looks the course up again
MustFetchAlways(cache, course_title) == TRUE

\* whether the row looks the course up in the store (not cached yet)
MustFetch(cache, course_title) == course_title \notin DOMAIN cache

\* header of a row
Header(meta) ==
    <<"[", TitleOf(meta)>>
    \o (IF meta.lesson_number # NoneInt THEN <<" - Lesson ", Str(meta.lesson_number)>> ELSE <<>>)
    \o <<"]">>

\* display_text of a row's source
DisplayText(meta) ==
    IF meta.lesson_number = NoneInt THEN <<TitleOf(meta)>>
    ELSE <<TitleOf(meta), " - Lesson ", Str(meta.lesson_number)>>

\* one iteration of the loop of _format_results over (doc, meta); st is the loop's state:
\* formatted, sources, course_lessons_cache, and the store answers not yet consumed
FormatRow(st, doc, meta) ==
    LET course_title == TitleOf(meta)
        lesson_num   == meta.lesson_number
        fetch        == NeedsLink(meta) /\ MustFetch(st.cache, course_title)
        cache1       == IF fetch
                        THEN (course_title :> _get_course_metadata(st.answers[st.fetches + 1], course_title))
                             @@ st.cache
                        ELSE st.cache
        lesson_link  == IF NeedsLink(meta) /\ cache1[course_title] # EmptyDict
                        THEN FindLessonLink(cache1[course_title].lessons, lesson_num)
                        ELSE NoneStr
        source_obj   == [display_text  |-> DisplayText(meta),
                         course_title  |-> course_title,
                         lesson_number |-> lesson_num,
                         lesson_link   |-> lesson_link]
    IN  [formatted |-> Append(st.formatted, Header(meta) \o <<"\n", doc>>),
         sources   |-> Append(st.sources, source_obj),
         cache     |-> cache1,
         answers   |-> st.answers,
         fetches   |-> IF fetch THEN st.fetches + 1 ELSE st.fetches]

\* FormatLoop leaving the loop after its first row
FormatLoopFirstOnly(st, documents, metadata) ==
    IF Len(documents) = 0 \/ Len(metadata) = 0 THEN st
    ELSE FormatRow(st, Head(documents), Head(metadata))

RECURSIVE FormatLoop(_, _, _)
\* for doc, meta in zip(results.documents, results.metadata)
FormatLoop(st, documents, metadata) ==
    IF Len(documents) = 0 \/ Len(metadata) = 0 THEN st
    ELSE FormatLoop(FormatRow(st, Head(documents), Head(metadata)), Tail(documents), Tail(metadata))

\* StoredSources extending the old list instead of replacing it
StoredSourcesAccumulate(old, sources) == old \o sources

\* the value _format_results assigns to self.last_sources
StoredSources(old, sources) == sources

\* CourseSearchTool._format_results: [ret, last_sources, produced, fetches], produced the local list
\* sources and fetches the number of calls of store.get_all_courses_metadata
_format_results(results, answers, old) ==
    LET st == FormatLoop([formatted |-> <<>>, sources |-> <<>>, cache |-> <<>>,
                          answers |-> answers, fetches |-> 0],
                         results.documents, results.metadata)
    IN  [ret          |-> Join(st.formatted, <<"\n\n">>),
         last_sources |-> StoredSources(old, st.sources),
         produced     |-> st.sources,
         fetches      |-> st.fetches]

\* the filter part of the no-results message
FilterInfo(course_name, lesson_number) ==
    (IF TruthyStr(course_name) THEN <<" in course '", course_name, "'">> ELSE <<>>)
    \o (IF TruthyInt(lesson_number) THEN <<" in lesson ", Str(lesson_number)>> ELSE <<>>)

\* ErrorReturn that also clears the tool's sources
ErrorReturnClears(results, old) ==
    [ret |-> <<results.error>>, last_sources |-> <<>>, produced |-> <<>>, fetches |-> 0]

\* what execute returns when the store reports an error
ErrorReturn(results, old) ==
    [ret |-> <<results.error>>, last_sources |-> old, produced |-> <<>>, fetches |-> 0]

\* what execute returns when the store finds nothing
EmptyReturn(course_name, lesson_number, old) ==
    [ret |-> <<"No relevant content found">> \o FilterInfo(course_name, lesson_number) \o <<".">>,
     last_sources |-> old, produced |-> <<>>, fetches |-> 0]

\* CourseSearchTool.execute: [ret, last_sources, produced, fetches]
SearchExecute(course_name, lesson_number, results, answers, old) ==
    IF TruthyStr(results.error) THEN ErrorReturn(results, old)
    ELSE IF is_empty(results) THEN EmptyReturn(course_name, lesson_number, old)
    ELSE _format_results(results, answers, old)

(************************* CourseOutlineTool *******************************)
\* d.get(key, default) for a key that is absent (NoneStr)
Get(v, default) == IF v = NoneStr THEN default ELSE v

\* the Source Record of a course
CourseSource(title, course_link) ==
    [display_text  |-> <<title>>,
     course_title  |-> title,
     lesson_number |-> NoneInt,
     lesson_link   |-> course_link]

\* one line of the lesson list of _format_single_course
LessonLine(lesson) ==
    IF TruthyStr(Get(lesson.lesson_link, ""))
    THEN <<"- Lesson ", Str(lesson.lesson_number), ": [", Get(lesson.lesson_title, "Untitled"), "](",
           lesson.lesson_link, ")">>
    ELSE <<"- Lesson ", Str(lesson.lesson_number), ": ", Get(lesson.lesson_title, "Untitled")>>

\* CourseOutlineTool._format_single_course: [ret, last_sources, produced]
_format_single_course(course) ==
    LET title == Get(course.title, "Unknown Course")
        lines == <<<<"## ", title>>>>
                 \o (IF TruthyStr(course.course_link)
                     THEN <<<<"**Course Link:** ", course.course_link>>>> ELSE <<>>)
                 \o (IF TruthyStr(course.instructor)
                     THEN <<<<"**Instructor:** ", course.instructor>>>> ELSE <<>>)
                 \o (IF Len(course.lessons) > 0
                     THEN <<<<"\n**Lessons:**">>>> \o [i \in 1..Len(course.lessons) |-> LessonLine(course.lessons[i])]
                     ELSE <<<<"\n*No lessons found for this course.*">>>>)
        sources == <<CourseSource(title, course.course_link)>>
    IN  [ret |-> Join(lines, <<"\n">>), last_sources |-> sources, produced |-> sources]

\* lessons[:3]
FirstThree(lessons) == SubSeq(lessons, 1, IF Len(lessons) < 3 THEN Len(lessons) ELSE 3)

\* the lines _format_all_courses appends for one course
CourseSummary(course) ==
    LET title == Get(course.title, "Unknown Course")
        shown == FirstThree(course.lessons)
    IN  <<<<"## ", title>>>>
        \o (IF TruthyStr(course.course_link) THEN <<<<"**Link:** ", course.course_link>>>> ELSE <<>>)
        \o <<<<"**Instructor:** ", Get(course.instructor, "Unknown")>>>>
        \o <<<<"**Total Lessons:** ", Str(Len(course.lessons))>>>>
        \o (IF Len(course.lessons) > 0
            THEN <<<<"**Topics:** ">>
                   \o Join([i \in 1..Len(shown) |->
                              <<"L", Str(shown[i].lesson_number), ": ", Get(shown[i].lesson_title, "Untitled")>>],
                           <<", ">>)>>
                 \o (IF Len(course.lessons) > 3
                     THEN <<<<"*... and ", Str(Len(course.lessons) - 3), " more lessons*">>>> ELSE <<>>)
            ELSE <<>>)
        \o <<<<"">>>>

RECURSIVE Flatten(_)
\* the concatenation of a sequence of sequences
Flatten(ss) == IF Len(ss) = 0 THEN <<>> ELSE Head(ss) \o Flatten(Tail(ss))

\* CourseOutlineTool._format_all_courses: [ret, last_sources, produced]
_format_all_courses(courses, old) ==
    IF Len(courses) = 0
    THEN [ret |-> <<"No courses available.">>, last_sources |-> old, produced |-> <<>>]
    ELSE LET lines   == <<<<"# Available Courses\n">>>>
                        \o Flatten([i \in 1..Len(courses) |-> CourseSummary(courses[i])])
             sources == [i \in 1..Len(courses) |->
                           CourseSource(Get(courses[i].title, "Unknown Course"), courses[i].course_link)]
         IN  [ret |-> Join(lines, <<"\n">>), last_sources |-> sources, produced |-> sources]

\* NoCourseFound that also clears the tool's sources
NoCourseFoundClears(course_name, old) ==
    [ret |-> <<"No course found matching '", course_name, "'.">>, last_sources |-> <<>>, produced |-> <<>>]

\* the value execute returns when the resolver finds no course
NoCourseFound(course_name, old) ==
    [ret |-> <<"No course found matching '", course_name, "'.">>, last_sources |-> old, produced |-> <<>>]

\* CourseOutlineTool.execute: [raised, ret, last_sources, produced]
OutlineExecute(course_name, answer, resolved_title, old) ==
    LET all_courses == answer.courses
        out ==
          IF Len(all_courses) = 0
          THEN [ret |-> <<"No courses available in the knowledge base.">>,
                last_sources |-> old, produced |-> <<>>]
          ELSE IF TruthyStr(course_name)
          THEN IF ~TruthyStr(resolved_title)
               THEN NoCourseFound(course_name, old)
               ELSE IF FindCourse(all_courses, resolved_title) # EmptyDict
               THEN _format_single_course(FindCourse(all_courses, resolved_title))
               ELSE [ret |-> <<"Course metadata not found for '", resolved_title, "'.">>,
                     last_sources |-> old, produced |-> <<>>]
          ELSE _format_all_courses(all_courses, old)
    IN  IF answer.raised
        THEN [raised |-> TRUE, ret |-> <<>>, last_sources |-> old, produced |-> <<>>]
        ELSE [raised |-> FALSE, ret |-> out.ret, last_sources |-> out.last_sources, produced |-> out.produced]

(***************************** ToolManager *********************************)
\* the tool objects of the program: a CourseSearchTool, a CourseOutlineTool, two instances of
\* another Tool whose definition is named "custom_tool" and that tracks no sources, and a Tool
\* whose definition has no name
ToolInstances == {"s1", "o1", "x1", "x2", "n1"}

\* tool.get_tool_definition().get("name")
tool_name(t) ==
    CASE t = "s1" -> "search_course_content"
      [] t = "o1" -> "get_course_outline"
      [] t \in {"x1", "x2"} -> "custom_tool"
      [] OTHER -> NoneStr

\* hasattr(tool, 'last_sources')
HasLastSources(t) == t \in {"s1", "o1"}

\* tool names a caller may dispatch
DispatchNames == {"search_course_content", "get_course_outline", "custom_tool", "missing_tool"}

\* the keys of the dict, in insertion order
Keys(d) == [i \in 1..Len(d) |-> d[i].name]

\* DictSet that moves an existing key to the end
DictSetMovesToEnd(d, k, v) ==
    Append(SelectSeq(d, LAMBDA e : e.name # k), [name |-> k, tool |-> v])

\* d[k] = v on an insertion-ordered dict: an existing key keeps its place
DictSet(d, k, v) ==
    IF \E i \in 1..Len(d) : d[i].name = k
    THEN [i \in 1..Len(d) |-> IF d[i].name = k THEN [name |-> k, tool |-> v] ELSE d[i]]
    ELSE Append(d, [name |-> k, tool |-> v])

\* d[k]
DictGet(d, k) == d[CHOOSE i \in 1..Len(d) : d[i].name = k].tool

\* ToolManager.get_tool_definitions: the definitions (their names) of tools.values()
get_tool_definitions(d) == [i \in 1..Len(d) |-> tool_name(d[i].tool)]

RECURSIVE FirstSources(_, _)
\* the loop of get_last_sources over tools.values()
FirstSources(d, ls) ==
    IF Len(d) = 0 THEN <<>>
    ELSE IF HasLastSources(Head(d).tool) /\ Len(ls[Head(d).tool]) > 0 THEN ls[Head(d).tool]
    ELSE FirstSources(Tail(d), ls)

\* get_last_sources returning the sources of the last tool that has some
LastNonEmptySources(d, ls) == FirstSources([i \in 1..Len(d) |-> d[Len(d) + 1 - i]], ls)

\* ToolManager.get_last_sources
get_last_sources(d, ls) == FirstSources(d, ls)

\* ResetsTool for a loop that stops after the first tool
ResetsToolFirstOnly(d, t) == HasLastSources(t) /\ Len(d) > 0 /\ d[1].tool = t

\* whether the loop of reset_sources assigns [] to tool t
ResetsTool(d, t) == HasLastSources(t) /\ \E i \in 1..Len(d) : d[i].tool = t

\* ToolManager.reset_sources: the last_sources of every tool after it
reset_sources(d, ls) == [t \in DOMAIN ls |-> IF ResetsTool(d, t) THEN <<>> ELSE ls[t]]

(***************************** the calls ***********************************)
NoResults == [error |-> NoneStr, documents |-> <<>>, metadata |-> <<>>]

\* a call record with nothing filled in
Call(op) ==
    [op |-> op, name |-> NoneStr, tool |-> NoneStr, course_name |-> NoneStr, lesson_number |-> NoneInt,
     results |-> NoResults, answers |-> <<>>, resolved |-> NoneStr,
     ret |-> <<>>, raised |-> FALSE, produced |-> <<>>, fetches |-> 0, cleared |-> 0]

Init ==
    /\ tools = <<>>
    /\ last_sources = [s1 |-> <<>>, o1 |-> <<>>]
    /\ last = Call("init")

\* manager.register_tool(t)
RegisterTool(t) ==
    IF ~TruthyStr(tool_name(t))
    THEN /\ last' = [Call("register_tool") EXCEPT !.tool = t, !.raised = TRUE]
         /\ UNCHANGED <<tools, last_sources>>
    ELSE /\ tools' = DictSet(tools, tool_name(t), t)
         /\ last' = [Call("register_tool") EXCEPT !.tool = t, !.name = tool_name(t)]
         /\ UNCHANGED last_sources

\* manager.get_tool_definitions()
GetToolDefinitions ==
    /\ last' = [Call("get_tool_definitions") EXCEPT !.ret = get_tool_definitions(tools)]
    /\ UNCHANGED <<tools, last_sources>>

\* manager.execute_tool(name, ...) for a name that is not registered
ExecuteToolNotFound(name) ==
    /\ name \notin Range(Keys(tools))
    /\ last' = [Call("execute_tool") EXCEPT !.name = name, !.ret = <<"Tool '", name, "' not found">>]
    /\ UNCHANGED <<tools, last_sources>>

\* the number of answers of store.get_all_courses_metadata a search may consume: one for every row
\* that asks for a lesson link
AnswersAsked(results) ==
    IF TruthyStr(results.error) THEN 0
    ELSE Cardinality({i \in 1..Len(results.metadata) : NeedsLink(results.metadata[i])})

\* manager.execute_tool("search_course_content", query, course_name, lesson_number)
ExecuteSearch(course_name, lesson_number, results) ==
    /\ "search_course_content" \in Range(Keys(tools))
    /\ LET t == DictGet(tools, "search_course_content") IN
       \E answers \in [1..AnswersAsked(results) -> CatalogAnswers] :
       \E out \in {SearchExecute(course_name, lesson_number, results, answers, last_sources[t])} :
         /\ last_sources' = [last_sources EXCEPT ![t] = out.last_sources]
         /\ last' = [Call("execute_tool") EXCEPT
                       !.name = "search_course_content", !.tool = t,
                       !.course_name = course_name, !.lesson_number = lesson_number,
                       !.results = results, !.answers = SubSeq(answers, 1, out.fetches),
                       !.ret = out.ret, !.produced = out.produced, !.fetches = out.fetches]
    /\ UNCHANGED tools

\* manager.execute_tool("get_course_outline", course_name)
ExecuteOutline(course_name, answer) ==
    /\ "get_course_outline" \in Range(Keys(tools))
    /\ LET t == DictGet(tools, "get_course_outline") IN
       \E resolved \in (IF ~answer.raised /\ Len(answer.courses) > 0 /\ TruthyStr(course_name)
                        THEN ResolveAnswers ELSE {NoneStr}) :
       \E out \in {OutlineExecute(course_name, answer, resolved, last_sources[t])} :
         /\ last_sources' = [last_sources EXCEPT ![t] = out.last_sources]
         /\ last' = [Call("execute_tool") EXCEPT
                       !.name = "get_course_outline", !.tool = t,
                       !.course_name = course_name, !.answers = <<answer>>, !.resolved = resolved,
                       !.ret = out.ret, !.raised = out.raised, !.produced = out.produced,
                       !.fetches = 1]
    /\ UNCHANGED tools

\* manager.execute_tool("custom_tool"): a tool that returns its text and tracks no sources
ExecuteCustom ==
    /\ "custom_tool" \in Range(Keys(tools))
    /\ last' = [Call("execute_tool") EXCEPT
                  !.name = "custom_tool", !.tool = DictGet(tools, "custom_tool"),
                  !.ret = <<"custom output">>]
    /\ UNCHANGED <<tools, last_sources>>

\* manager.get_last_sources()
GetLastSources ==
    /\ last' = [Call("get_last_sources") EXCEPT !.ret = get_last_sources(tools, last_sources)]
    /\ UNCHANGED <<tools, last_sources>>

\* manager.reset_sources()
ResetSources ==
    /\ last_sources' = reset_sources(tools, last_sources)
    /\ last' = [Call("reset_sources") EXCEPT
                  !.cleared = Cardinality({t \in DOMAIN last_sources :
                                             ResetsTool(tools, t) /\ Len(last_sources[t]) > 0})]
    /\ UNCHANGED tools

\* the searches dispatched while sequences of manager calls are explored
ManagerSearches ==
    [course_name : CourseNames, lesson_number : {NoneInt},
     results : SearchResultsOver({"d1"}, {m \in Metas : NeedsLink(m)}, MaxRows)]

Next ==
    \/ \E t \in ToolInstances : RegisterTool(t)
    \/ GetToolDefinitions
    \/ \E name \in DispatchNames : ExecuteToolNotFound(name)
    \/ \E c \in ManagerSearches : ExecuteSearch(c.course_name, c.lesson_number, c.results)
    \/ \E course_name \in CourseNames, answer \in CatalogAnswers : ExecuteOutline(course_name, answer)
    \/ ExecuteCustom
    \/ GetLastSources
    \/ ResetSources

Spec == Init /\ [][Next]_vars

(************************* single search calls *****************************)
\* every search of the input sets
AllSearches ==
    [course_name : CourseNames, lesson_number : LessonNumbers,
     results : SearchResultsOver(Docs, Metas, MaxResults)]

\* sources left by an earlier search and by an earlier outline call
StaleSearchSources ==
    <<[display_text |-> <<"RAG", " - Lesson ", "1">>, course_title |-> "RAG",
       lesson_number |-> 1, lesson_link |-> NoneStr]>>
StaleOutlineSources == <<CourseSource("MCP", "http://mcp")>>

\* states the manager is in after registrations and earlier calls: both tools registered in either
\* order, each holding no sources or the sources of an earlier call
SearchInit ==
    /\ tools \in {<<[name |-> "search_course_content", tool |-> "s1"],
                    [name |-> "get_course_outline", tool |-> "o1"]>>,
                  <<[name |-> "get_course_outline", tool |-> "o1"],
                    [name |-> "search_course_content", tool |-> "s1"]>>}
    /\ last_sources \in [s1 : {<<>>, StaleSearchSources}, o1 : {<<>>, StaleOutlineSources}]
    /\ last = Call("init")

\* one dispatch of search_course_content from such a state
SearchNext ==
    /\ last.op = "init"
    /\ \E c \in AllSearches : ExecuteSearch(c.course_name, c.lesson_number, c.results)

SearchSpec == SearchInit /\ [][SearchNext]_vars

(***************************** the claims **********************************)
\* a dispatch that reached the search tool / the outline tool
IsSearchCall(c) == c.op = "execute_tool" /\ c.name = "search_course_content" /\ c.tool # NoneStr
IsOutlineCall(c) == c.op = "execute_tool" /\ c.name = "get_course_outline" /\ c.tool # NoneStr

\* a search whose store result has no error and at least one row
SearchFormats(c) == IsSearchCall(c) /\ c.results.error = NoneStr /\ Len(c.results.documents) >= 1

\* an outline call that renders one course or the list of all courses
OutlineFormats(c) ==
    /\ IsOutlineCall(c) /\ ~c.raised
    /\ Len(c.answers[1].courses) > 0
    /\ \/ c.course_name \in {NoneStr, ""}
       \/ \E i \in 1..Len(c.answers[1].courses) : c.answers[1].courses[i].title = c.resolved

RECURSIVE SplitAt(_, _)
\* the parts of a text between the pieces equal to sep
SplitAt(text, sep) ==
    IF sep \notin Range(text) THEN <<text>>
    ELSE LET i == CHOOSE k \in 1..Len(text) : text[k] = sep /\ \A j \in 1..(k - 1) : text[j] # sep
         IN  <<SubSeq(text, 1, i - 1)>> \o SplitAt(SubSeq(text, i + 1, Len(text)), sep)

\* block is the header block of the pair (doc, meta)
IsBlockOf(block, doc, meta) ==
    /\ Len(block) >= 5
    /\ block[1] = "[" /\ block[2] = TitleOf(meta)
    /\ IF meta.lesson_number = NoneInt
       THEN block[3] = "]"
       ELSE block[3] = " - Lesson " /\ block[4] = Str(meta.lesson_number) /\ block[5] = "]"
    /\ block[Len(block)] = doc

\* src is the Source Record of a row with metadata meta
IsSourceOf(src, meta) ==
    /\ src.course_title = TitleOf(meta)
    /\ src.lesson_number = meta.lesson_number
    /\ src.display_text = IF meta.lesson_number = NoneInt THEN <<TitleOf(meta)>>
                          ELSE <<TitleOf(meta), " - Lesson ", Str(meta.lesson_number)>>

\* the text has one header block per pair, in the order of the pairs
TextHasBlocks(text, results) ==
    LET blocks == SplitAt(text, "\n\n") IN
    /\ Len(blocks) = Len(results.documents)
    /\ Cardinality({k \in 1..Len(text) : text[k] = "["}) = Len(results.documents)
    /\ \A i \in 1..Len(blocks) : IsBlockOf(blocks[i], results.documents[i], results.metadata[i])

\* srcs holds one Source Record per pair, in the order of the pairs
SourcesOfPairs(srcs, results) ==
    /\ Len(srcs) = Len(results.documents)
    /\ \A i \in 1..Len(srcs) : IsSourceOf(srcs[i], results.metadata[i])

\* a tool registered before the search tool holds sources
EarlierToolHasSources ==
    \E i, j \in 1..Len(tools) :
        /\ j < i /\ tools[i].name = "search_course_content"
        /\ HasLastSources(tools[j].tool) /\ Len(last_sources[tools[j].tool]) > 0

C2_Original ==
    (last.op = "execute_tool" /\ HasLastSources(last.tool) /\ ~last.raised) =>
        last_sources[last.tool] = last.produced

\* the number of Source Records an execution that formats results builds
RecordsBuilt(c) ==
    IF IsSearchCall(c) THEN Len(c.results.documents)
    ELSE IF TruthyStr(c.course_name) THEN 1 ELSE Len(c.answers[1].courses)

\* C2 amended: an execute that formats results (a search with no error and at least one row, an
\* outline call that renders a course or all courses) replaces last_sources by exactly the records it
\* built; every other execute of the tool leaves last_sources as it was.
C2_OverwriteOrKeep ==
    /\ []((SearchFormats(last) \/ OutlineFormats(last)) =>
            /\ last_sources[last.tool] = last.produced
            /\ Len(last_sources[last.tool]) = RecordsBuilt(last))
    /\ [][(last'.op = "execute_tool" /\ ~SearchFormats(last') /\ ~OutlineFormats(last'))
            => last_sources' = last_sources]_vars

C2_Witness ==
    /\ OutlineFormats(last) /\ last.course_name = NoneStr
    /\ Len(last_sources[last.tool]) = 2
    /\ Len(last_sources["s1"]) = 1

\* C3: every execute_tool call returns a text and raises nothing.
C3_NoException == last.op = "execute_tool" => ~last.raised

\* C4: when the store returns no pairs and no error, the message of the search names every filter
\* that was supplied and no filter that was not.
C4_NamesFilters ==
    (IsSearchCall(last) /\ last.results.error = NoneStr /\ Len(last.results.documents) = 0) =>
        /\ last.ret[1] = "No relevant content found"
        /\ last.course_name # NoneStr =>
             \E k \in 1..(Len(last.ret) - 1) : last.ret[k] = " in course '" /\ last.ret[k + 1] = last.course_name
        /\ last.lesson_number # NoneInt =>
             \E k \in 1..(Len(last.ret) - 1) : last.ret[k] = " in lesson " /\ last.ret[k + 1] = Str(last.lesson_number)
        /\ last.course_name = NoneStr => " in course '" \notin Range(last.ret)
        /\ last.lesson_number = NoneInt => " in lesson " \notin Range(last.ret)

\* C5: when the store's result has its error set, the search returns exactly that error, whatever
\* the documents and metadata are, and the tool's last_sources is as it was before the call.
C5_ErrorVerbatim ==
    [][(IsSearchCall(last') /\ last'.results.error # NoneStr) =>
          /\ last'.ret = <<last'.results.error>>
          /\ last_sources'[last'.tool] = last_sources[last'.tool]]_vars

C5_Witness ==
    /\ IsSearchCall(last) /\ last.results.error # NoneStr
    /\ Len(last.results.documents) = 2
    /\ last.ret = <<last.results.error>>
    /\ last_sources["s1"] = StaleSearchSources

\* C6: after reset_sources every registered tool that tracks sources has none, get_last_sources()
\* returns the empty sequence, and a second reset_sources changes nothing.
C6_ResetClears ==
    last.op = "reset_sources" =>
        /\ \A i \in 1..Len(tools) :
             HasLastSources(tools[i].tool) => last_sources[tools[i].tool] = <<>>
        /\ get_last_sources(tools, last_sources) = <<>>
        /\ reset_sources(tools, last_sources) = last_sources

C6_Witness == last.op = "reset_sources" /\ last.cleared = 2 /\ Len(tools) = 3

\* C7: the definitions list has one entry per registered name; a successful register_tool of a new
\* name appends its definition, and of a registered name keeps the list as it is and puts the tool
\* registered last under that name.
C7_Definitions ==
    /\ [](/\ Len(get_tool_definitions(tools)) = Cardinality(Range(Keys(tools)))
          /\ get_tool_definitions(tools) = Keys(tools))
    /\ [][(last'.op = "register_tool" /\ ~last'.raised) =>
            /\ IF last'.name \in Range(Keys(tools))
               THEN get_tool_definitions(tools') = get_tool_definitions(tools)
               ELSE get_tool_definitions(tools') = Append(get_tool_definitions(tools), last'.name)
            /\ DictGet(tools', last'.name) = last'.tool
            /\ \A i \in 1..Len(tools) : tools[i].name # last'.name => tools'[i] = tools[i]]_vars

C7_Witness ==
    /\ last.op = "register_tool" /\ last.tool = "x2"
    /\ Len(tools) = 3 /\ tools[1] = [name |-> "custom_tool", tool |-> "x2"]

\* the sources of the first registered tool that has some, none when no tool has
FirstNonEmpty ==
    LET has == {i \in 1..Len(tools) : HasLastSources(tools[i].tool) /\ last_sources[tools[i].tool] # <<>>}
    IN  IF has = {} THEN <<>>
        ELSE last_sources[tools[CHOOSE i \in has : \A j \in has : i <= j].tool]

OutlineUnresolved(c) ==
    /\ IsOutlineCall(c) /\ ~c.raised
    /\ Len(c.answers[1].courses) > 0
    /\ c.course_name \notin {NoneStr, ""} /\ c.resolved = NoneStr

\* C9: an outline call whose course name does not resolve returns "No course found matching
\* '<name>'." and leaves the tool's last_sources as it was.
C9_NotFoundKeepsSources ==
    [][OutlineUnresolved(last') =>
          /\ last'.ret = <<"No course found matching '", last'.course_name, "'.">>
          /\ last_sources'[last'.tool] = last_sources[last'.tool]]_vars

C9_Witness ==
    /\ OutlineUnresolved(last)
    /\ last_sources["o1"] # <<>>

\* the titles of the rows that ask for a lesson link
LinkTitles(results) ==
    {TitleOf(results.metadata[i]) : i \in {k \in 1..Len(results.metadata) : NeedsLink(results.metadata[k])}}

\* the store answer the rows of row i's title were resolved with: the titles are looked up in the
\* order of their first rows
AnswerOfRow(c, i) ==
    LET first == CHOOSE k \in 1..i :
                   /\ NeedsLink(c.results.metadata[k])
                   /\ TitleOf(c.results.metadata[k]) = TitleOf(c.results.metadata[i])
                   /\ \A j \in 1..(k - 1) :
                        ~(NeedsLink(c.results.metadata[j])
                          /\ TitleOf(c.results.metadata[j]) = TitleOf(c.results.metadata[i]))
    IN  c.answers[Cardinality(LinkTitles([c.results EXCEPT !.metadata = SubSeq(c.results.metadata, 1, first)]))]

\* C10: a search that formats results calls get_all_courses_metadata once for every distinct title
\* among the rows that ask for a lesson link, whatever an earlier call did, and the rows of a title
\* whose call failed or found no such course get no lesson link.
C10_OneFetchPerTitle ==
    SearchFormats(last) =>
        /\ last.fetches = Cardinality(LinkTitles(last.results))
        /\ Len(last.answers) = last.fetches
        /\ \A i \in 1..Len(last.results.metadata) :
             (/\ NeedsLink(last.results.metadata[i])
              /\ \/ AnswerOfRow(last, i).raised
                 \/ \A k \in 1..Len(AnswerOfRow(last, i).courses) :
                      AnswerOfRow(last, i).courses[k].title # TitleOf(last.results.metadata[i]))
             => last_sources[last.tool][i].lesson_link = NoneStr

C10_Witness ==
    /\ SearchFormats(last) /\ Len(last.results.metadata) = 2
    /\ last.results.metadata[1] = last.results.metadata[2]
    /\ NeedsLink(last.results.metadata[1])
    /\ last.fetches = 1 /\ last.answers[1].raised
    /\ last_sources["s1"][2].lesson_link = NoneStr
    /\ last_sources = [s1 |-> last.produced, o1 |-> <<>>]

====
